---- MODULE Spec2Model ----
\* TimeZap: the TimeService tick / idle / accumulation state machine, the
\* debounced Storage on top of the host key-value store, and the time-series
\* bucketing of getTimeSeriesForWorkspaceRanges.
\*
\* Time is in milliseconds, as Date.now() returns it.  Objects are values; the
\* one alias that matters (Storage.pendingData holding the very object that
\* TimeService.data names) is modelled by a reference tag.
EXTENDS Integers, Sequences, FiniteSets, TLC

----------------------------------------------------------------------------
\* Bounds of the model

\* number of times the clock may advance in one behaviour
MaxSteps == 6
\* the same on the event loop that is never late, where a behaviour has to
\* outlast a persist interval and a debounce after a change
MaxStepsPunctual == 9
\* number of user commands / host events (start, stop, reset, import, editor
\* changes, activity) in one behaviour
MaxCommands == 2
\* largest idleTimeoutSeconds the constructor is given
MaxIdleTimeout == 2
\* how many half seconds late the event loop may run a due timer
MaxLate == 1
\* largest number of stored day buckets drawn for the time-series function
MaxStoredDays == 2
\* the day (since 1970-01-01) on which the time series are asked for
SeriesDay == 20

----------------------------------------------------------------------------
\* Program constants

\* setInterval(() => this.onTick(), 1000)
TickMs == 1000
\* setTimeout(..., 1000) of Storage.save
DebounceMs == 1000
\* toISOString().slice(0, 10): one UTC calendar day
DayMs == 86400000
\* buildContiguous(7), buildContiguous(30), buildContiguous(365)
Days7 == 7
Days30 == 30
Days1y == 365

\* the smallest step of the model clock (half a tick period)
HalfTick == TickMs \div 2

----------------------------------------------------------------------------
\* Generic helpers

\* obj[k] = v on a JS object (a finite function)
Put(f, k, v) == [x \in (DOMAIN f) \cup {k} |-> IF x = k THEN v ELSE f[x]]

\* (obj[k] || 0)
GetOr0(f, k) == IF k \in DOMAIN f THEN f[k] ELSE 0

\* a timer handle that is not set (undefined)
NoTimer == -1

----------------------------------------------------------------------------
\* Dates

\* Days since 1970-01-01 -> <<year, month, day>>, the fields toISOString()
\* prints as YYYY-MM-DD (proleptic Gregorian calendar).
CivilFromDays(z0) ==
    LET z   == z0 + 719468
        era == z \div 146097
        doe == z - era * 146097
        yoe == (doe - (doe \div 1460) + (doe \div 36524) - (doe \div 146096)) \div 365
        doy == doe - (365 * yoe + (yoe \div 4) - (yoe \div 100))
        mp  == (5 * doy + 2) \div 153
        d   == doy - ((153 * mp + 2) \div 5) + 1
        m   == IF mp < 10 THEN mp + 3 ELSE mp - 9
        y   == yoe + era * 400 + (IF m <= 2 THEN 1 ELSE 0)
    IN  <<y, m, d>>

\* dateKeyFor(ts): the UTC date of the instant ts, as the triple that the
\* fixed-width string YYYY-MM-DD spells
dateKeyFor(ts) == CivilFromDays(ts \div DayMs)

\* a.localeCompare(b) < 0 on two YYYY-MM-DD strings: field by field
DateLess(a, b) ==
    \/ a[1] < b[1]
    \/ a[1] = b[1] /\ a[2] < b[2]
    \/ a[1] = b[1] /\ a[2] = b[2] /\ a[3] < b[3]

----------------------------------------------------------------------------
\* The host: workspace folders, files, paths

\* the key of time that belongs to no workspace folder, and the file key used
\* when no file is active
Untitled == "untitled"
UntitledPath == <<"untitled">>

\* the one workspace folder that is open: wf.uri.toString()
W1 == "file:///w1"
\* its uri.fsPath, as path segments
W1Path == <<"w1">>

\* process.cwd() of the extension host
Cwd == <<"home", "u">>

\* files an editor can show: two in different folders of W1, one outside
FileA == <<"w1", "src", "a.ts">>
FileB == <<"w1", "lib", "b.ts">>
FileC == <<"tmp", "c.ts">>
Files == {FileA, FileB, FileC}

\* vscode.window.activeTextEditor is undefined
NoEditor == <<>>
Editors == Files \cup {NoEditor}

IsPrefix(p, q) == Len(p) <= Len(q) /\ SubSeq(q, 1, Len(p)) = p

\* vscode.workspace.getWorkspaceFolder(uri): "" stands for undefined
getWorkspaceFolder(file) == IF IsPrefix(W1Path, file) THEN W1 ELSE ""

\* the bucket the claim expects for what the host shows
HostWorkspaceKey(editor) ==
    IF editor = NoEditor \/ getWorkspaceFolder(editor) = "" THEN Untitled
    ELSE getWorkspaceFolder(editor)

\* activeWorkspace || 'untitled'
workspaceKeyOf(ws) == IF ws = "" THEN Untitled ELSE ws

\* path.resolve of a path: 'untitled' is the only relative path in use
Resolve(p) == IF p = UntitledPath THEN Cwd \o p ELSE p

RECURSIVE CommonLen(_, _)
CommonLen(p, q) ==
    IF p = <<>> \/ q = <<>> \/ Head(p) # Head(q) THEN 0
    ELSE 1 + CommonLen(Tail(p), Tail(q))

\* path.relative(from, to), as path segments
relative(from, to) ==
    LET f == Resolve(from)
        t == Resolve(to)
        n == CommonLen(f, t)
    IN  [i \in 1..(Len(f) - n) |-> ".."] \o SubSeq(t, n + 1, Len(t))

\* workspaceKey.startsWith('file://') ? Uri.parse(workspaceKey).fsPath : workspaceKey
WorkspaceFsPath(workspaceKey) ==
    IF workspaceKey = W1 THEN W1Path ELSE UntitledPath

\* folderPath.split(path.sep)[0] || '.'
folderKeyFor(workspaceKey, fileKey) ==
    LET folderPath == relative(WorkspaceFsPath(workspaceKey), fileKey)
    IN  IF folderPath = <<>> THEN "." ELSE folderPath[1]

----------------------------------------------------------------------------
\* The persisted data model (PersistedData)

\* {} : an object with no workspaceFolders
EmptyObj == <<>>

\* { totalSeconds: 0, byFile: {}, byFolder: {} }
NewDayBucket == [totalSeconds |-> 0, byFile |-> <<>>, byFolder |-> <<>>]

\* { meta: { path: workspaceKey }, dates: {} }
NewWorkspace(workspaceKey) == [meta |-> [path |-> workspaceKey], dates |-> <<>>]

\* d.workspaceFolders, {} when the key is missing
WorkspaceFoldersOf(d) ==
    IF "workspaceFolders" \in DOMAIN d THEN d["workspaceFolders"] ELSE <<>>

\* ws.dates of workspace w in d, {} when there is none
DatesOf(d, w) ==
    IF w \in DOMAIN WorkspaceFoldersOf(d) THEN WorkspaceFoldersOf(d)[w].dates ELSE <<>>

\* (bucket.totalSeconds || 0)
TotalOf(bucket) ==
    IF "totalSeconds" \in DOMAIN bucket THEN bucket["totalSeconds"] ELSE 0

\* the totals a reader sees in d; 0 where nothing is stored
DayTotal(d, w, day) ==
    IF day \in DOMAIN DatesOf(d, w) THEN TotalOf(DatesOf(d, w)[day]) ELSE 0
FileTotal(d, w, day, f) ==
    IF day \in DOMAIN DatesOf(d, w) THEN GetOr0(DatesOf(d, w)[day].byFile, f) ELSE 0
FolderTotal(d, w, day, k) ==
    IF day \in DOMAIN DatesOf(d, w) THEN GetOr0(DatesOf(d, w)[day].byFolder, k) ELSE 0

\* every key under which d holds something
WorkspaceKeysOf(d) == DOMAIN WorkspaceFoldersOf(d)
DayKeysOf(d) == UNION {DOMAIN DatesOf(d, w) : w \in WorkspaceKeysOf(d)}
FileKeysOf(d) ==
    UNION {UNION {DOMAIN DatesOf(d, w)[day].byFile : day \in DOMAIN DatesOf(d, w)} :
             w \in WorkspaceKeysOf(d)}
FolderKeysOf(d) ==
    UNION {UNION {DOMAIN DatesOf(d, w)[day].byFolder : day \in DOMAIN DatesOf(d, w)} :
             w \in WorkspaceKeysOf(d)}

\* the sum of every day total in d
RECURSIVE SumOver(_, _, _)
SumOver(d, w, days) ==
    IF days = {} THEN 0
    ELSE LET x == CHOOSE y \in days : TRUE
         IN  DayTotal(d, w, x) + SumOver(d, w, days \ {x})
GrandTotal(d, w) == SumOver(d, w, DOMAIN DatesOf(d, w))

----------------------------------------------------------------------------
\* onTick, the accumulating part: "ensure structure", then add deltaSec to the
\* day bucket and to one byFile or one byFolder entry

\* a mutant that also books the delta under byFile in 'folder' mode
AccumulateBothMaps(d, workspaceKey, fileKey, day, deltaSec, aggregateBy) ==
    LET ws0 == IF workspaceKey \in DOMAIN WorkspaceFoldersOf(d)
               THEN WorkspaceFoldersOf(d)[workspaceKey] ELSE NewWorkspace(workspaceKey)
        b0  == IF day \in DOMAIN ws0.dates THEN ws0.dates[day] ELSE NewDayBucket
        b1  == [b0 EXCEPT !.totalSeconds = TotalOf(b0) + deltaSec,
                          !.byFile = Put(b0.byFile, fileKey, GetOr0(b0.byFile, fileKey) + deltaSec)]
        b2  == IF aggregateBy = "file" THEN b1
               ELSE [b1 EXCEPT !.byFolder =
                       Put(b0.byFolder, folderKeyFor(workspaceKey, fileKey),
                           GetOr0(b0.byFolder, folderKeyFor(workspaceKey, fileKey)) + deltaSec)]
        ws1 == [ws0 EXCEPT !.dates = Put(ws0.dates, day, b2)]
    IN  Put(d, "workspaceFolders", Put(WorkspaceFoldersOf(d), workspaceKey, ws1))

Accumulate(d, workspaceKey, fileKey, day, deltaSec, aggregateBy) ==
    LET ws0 == IF workspaceKey \in DOMAIN WorkspaceFoldersOf(d)
               THEN WorkspaceFoldersOf(d)[workspaceKey] ELSE NewWorkspace(workspaceKey)
        b0  == IF day \in DOMAIN ws0.dates THEN ws0.dates[day] ELSE NewDayBucket
        b1  == [b0 EXCEPT !.totalSeconds = TotalOf(b0) + deltaSec]
        b2  == IF aggregateBy = "file"
               THEN [b1 EXCEPT !.byFile =
                       Put(b0.byFile, fileKey, GetOr0(b0.byFile, fileKey) + deltaSec)]
               ELSE [b1 EXCEPT !.byFolder =
                       Put(b0.byFolder, folderKeyFor(workspaceKey, fileKey),
                           GetOr0(b0.byFolder, folderKeyFor(workspaceKey, fileKey)) + deltaSec)]
        ws1 == [ws0 EXCEPT !.dates = Put(ws0.dates, day, b2)]
    IN  Put(d, "workspaceFolders", Put(WorkspaceFoldersOf(d), workspaceKey, ws1))

\* Math.floor((now - lastTick) / 1000)
DeltaSec(t, tick) == (t - tick) \div 1000

----------------------------------------------------------------------------
\* JSON text, as the sequence of its tokens

Tok(t, v) == [t |-> t, v |-> v]
Punct(c) == Tok(c, 0)
\* the line break and indentation JSON.stringify(data, null, 2) inserts
Indent(depth) == <<Tok("nl", 2 * depth)>>

\* Object.keys(obj), in some fixed order
RECURSIVE KeySeq(_)
KeySeq(S) ==
    IF S = {} THEN <<>>
    ELSE LET k == CHOOSE x \in S : TRUE IN <<k>> \o KeySeq(S \ {k})

RECURSIVE Flatten(_)
Flatten(qs) == IF qs = <<>> THEN <<>> ELSE Head(qs) \o Flatten(Tail(qs))

\* an object with the given keys and the token sequences of their values
ObjectTokens(keys, members, depth) ==
    IF keys = <<>> THEN <<Punct("{"), Punct("}")>>
    ELSE <<Punct("{")>>
           \o Flatten([i \in 1..Len(keys) |->
                 Indent(depth + 1) \o <<Tok("str", keys[i]), Punct(":")>> \o members[i]
                   \o (IF i < Len(keys) THEN <<Punct(",")>> ELSE <<>>)])
           \o Indent(depth) \o <<Punct("}")>>

\* byFile / byFolder: an object of numbers
NumberMap(f, depth) ==
    LET ks == KeySeq(DOMAIN f)
    IN  ObjectTokens(ks, [i \in 1..Len(ks) |-> <<Tok("num", f[ks[i]])>>], depth)

\* a day bucket: totalSeconds (when it has one), byFile, byFolder
BucketTokens(b, depth) ==
    LET ks == KeySeq(DOMAIN b)
    IN  ObjectTokens(ks,
            [i \in 1..Len(ks) |->
                IF ks[i] = "totalSeconds" THEN <<Tok("num", b[ks[i]])>>
                ELSE NumberMap(b[ks[i]], depth + 1)], depth)

DatesTokens(dates, depth) ==
    LET ks == KeySeq(DOMAIN dates)
    IN  ObjectTokens(ks, [i \in 1..Len(ks) |-> BucketTokens(dates[ks[i]], depth + 1)], depth)

\* a workspace record: meta.path and (when it has them) dates
WorkspaceTokens(ws, depth) ==
    LET ks == KeySeq(DOMAIN ws)
    IN  ObjectTokens(ks,
            [i \in 1..Len(ks) |->
                IF ks[i] = "meta"
                THEN ObjectTokens(<<"path">>, <<<<Tok("str", ws.meta.path)>>>>, depth + 1)
                ELSE DatesTokens(ws[ks[i]], depth + 1)], depth)

\* JSON.stringify(data, null, 2) of a PersistedData
stringify(d) ==
    LET ks == KeySeq(DOMAIN d)
    IN  ObjectTokens(ks,
            [i \in 1..Len(ks) |->
                LET wf  == d[ks[i]]
                    wks == KeySeq(DOMAIN wf)
                IN  ObjectTokens(wks, [j \in 1..Len(wks) |-> WorkspaceTokens(wf[wks[j]], 2)], 1)],
            0)

\* white space between tokens is skipped
SkipWs(q) == SelectSeq(q, LAMBDA x : x.t # "nl")

\* JSON.parse: recursive descent over objects, strings and numbers
RECURSIVE ParseValue(_), ParseMembers(_, _)
ParseValue(q) ==
    IF Head(q).t = "{"
    THEN IF Head(Tail(q)).t = "}"
         THEN [val |-> <<>>, rest |-> Tail(Tail(q))]
         ELSE ParseMembers(<<>>, Tail(q))
    ELSE [val |-> Head(q).v, rest |-> Tail(q)]
ParseMembers(obj, q) ==
    LET key == Head(q).v
        v   == ParseValue(Tail(Tail(q)))
        o   == Put(obj, key, v.val)
    IN  IF Head(v.rest).t = "," THEN ParseMembers(o, Tail(v.rest))
        ELSE [val |-> o, rest |-> Tail(v.rest)]

parse(json) == ParseValue(SkipWs(json)).val

----------------------------------------------------------------------------
\* The status bar text

\* formatSecondsHuman(s): "0s", "<h>h <m>m", "<m>m <s>s" or "<s>s"
formatSecondsHuman(s) ==
    LET hours   == s \div 3600
        minutes == (s % 3600) \div 60
        seconds == s % 60
    IN  IF s <= 0 THEN <<[n |-> 0, unit |-> "s"]>>
        ELSE IF hours > 0 THEN <<[n |-> hours, unit |-> "h"], [n |-> minutes, unit |-> "m"]>>
        ELSE IF minutes > 0 THEN <<[n |-> minutes, unit |-> "m"], [n |-> seconds, unit |-> "s"]>>
        ELSE <<[n |-> seconds, unit |-> "s"]>>

\* item.text = <a fixed text>
FixedText(text) == [fixed |-> text, human |-> <<>>, live |-> FALSE]
\* item.text = `TimeZap: ${human}` or `TimeZap: ${human} (live)`
TotalText(human, live) == [fixed |-> "TimeZap: ", human |-> human, live |-> live]

\* getTodaySummaryForWorkspace, given what storage.load() returned, the
\* workspace key and Date.now()
getTodaySummaryForWorkspace(loaded, wsKey, t) ==
    IF \/ wsKey \notin DOMAIN WorkspaceFoldersOf(loaded)
       \/ "dates" \notin DOMAIN WorkspaceFoldersOf(loaded)[wsKey]
       \/ dateKeyFor(t) \notin DOMAIN WorkspaceFoldersOf(loaded)[wsKey].dates
    THEN NewDayBucket
    ELSE WorkspaceFoldersOf(loaded)[wsKey].dates[dateKeyFor(t)]

\* a mutant of refresh: the total of today's bucket in this.data
refreshFromMemory(isRunning, loaded, memory, wsKey, t) ==
    TotalText(formatSecondsHuman(TotalOf(getTodaySummaryForWorkspace(memory, wsKey, t))),
              isRunning)

\* StatusBar.refresh(): the text it leaves, given info.running, what
\* storage.load() returns, this.data, the workspace key and Date.now()
refresh(isRunning, loaded, memory, wsKey, t) ==
    TotalText(formatSecondsHuman(TotalOf(getTodaySummaryForWorkspace(loaded, wsKey, t))),
              isRunning)

----------------------------------------------------------------------------
\* State

VARIABLES
    \* the host
    now,              \* Date.now()
    editor,           \* vscode.window.activeTextEditor: the file shown, or NoEditor
    stored,           \* globalState['timezap.data']: [present, value]
    tz,               \* the host's time zone: [before, after, changeDay]
    timeouts,         \* live setTimeout timers of Storage.save: {[id, due]}
    intervals,        \* number of live setInterval timers
    \* TimeService
    config, running, idle, lastActivity, lastTick, activeFile, activeWorkspace,
    data,             \* this.data
    tickTimer,        \* due time of the 1 s interval, or NoTimer
    persistTimer,     \* due time of the persist interval, or NoTimer
    disposables,      \* number of attached listeners
    loadDone,         \* the constructor's storage.load() has been delivered
    \* Storage
    pendingData,      \* [present, ref, value]; ref: it is the object this.data names
    saveTimer,        \* id of the timer Storage remembers, or NoTimer
    inflight,         \* timer callbacks awaiting globalState.update
    promises,         \* the promises save() returned, not yet resolved: {[by, at]}
    \* the status bar and the extension
    statusText,       \* StatusBar.item.text
    deactivated,      \* deactivate() has run
    \* the dashboard
    series,           \* the last result of getTimeSeriesForWorkspaceRanges
    seriesArg,        \* the workspaceUri it was called with ("" for none)
    \* observation
    op,               \* the operation that made the last step
    emitted,          \* the 'update' events the last step emitted
    steps, cmds,      \* clock advances and commands so far
    dirtySince,       \* instant of the earliest tick total not yet written, or NoTimer
    stopData,         \* [set, value]: this.data at the last effective stop()
    lastWrite,        \* the last reset or import: [cmd, value, fromExport, atExport, counted]
    exported,         \* the last export: [present, json, store]
    countedSec,       \* seconds the ticks of this activation have added
    eligibleMs,       \* ms spent running within the idle timeout after an activity
    startedAt,        \* instant of the last effective start(), or NoTimer
    stoppedAt,        \* instant of the last effective stop(), or NoTimer
    countedAtStart,   \* countedSec at the last effective start()
    idleTicked        \* a tick has taken the idle branch since the last effective start()

hostVars  == <<now, editor, stored, timeouts>>
envVars   == <<config, tz, series, seriesArg>>
tickVars  == <<idle, lastActivity, lastTick, data>>
activeVars == <<activeFile, activeWorkspace>>
runVars   == <<running, tickTimer, persistTimer, disposables, intervals>>
storageVars == <<pendingData, saveTimer, inflight>>
obsVars   == <<op, emitted, steps, cmds, dirtySince, stopData>>
writeVars == <<lastWrite, exported>>
sessionVars == <<startedAt, stoppedAt>>
periodVars == <<countedAtStart, idleTicked>>
vars == <<now, editor, stored, timeouts, tz, series, seriesArg, config, running, idle, lastActivity, lastTick,
          activeFile, activeWorkspace, data, tickTimer, persistTimer, disposables,
          loadDone, pendingData, saveTimer, inflight, op, emitted, steps, cmds,
          dirtySince, stopData, intervals, promises, statusText, deactivated,
          lastWrite, exported, countedSec, eligibleMs, startedAt, stoppedAt,
          countedAtStart, idleTicked>>

----------------------------------------------------------------------------
\* Values the state is drawn from

\* the instant of activation: 1.5 s before a UTC midnight
Epoch0 == 2 * DayMs - 3 * HalfTick

\* history left in globalState by an earlier session
PriorData ==
    [workspaceFolders |->
        (W1 :> [meta |-> [path |-> W1],
                dates |-> (dateKeyFor(Epoch0) :>
                             [totalSeconds |-> 5, byFile |-> <<>>, byFolder |-> ("src" :> 5)])])]

\* what an import file holds (JSON.parse of it)
ImportedData ==
    [workspaceFolders |->
        (W1 :> [meta |-> [path |-> W1],
                dates |-> (dateKeyFor(Epoch0 - DayMs) :>
                             [totalSeconds |-> 600, byFile |-> <<>>, byFolder |-> ("lib" :> 600)])])]

Absent == [present |-> FALSE, value |-> EmptyObj]
Present(v) == [present |-> TRUE, value |-> v]

\* pendingData = undefined / the object this.data names / some other object
NoPending == [present |-> FALSE, ref |-> FALSE, value |-> EmptyObj]
PendingRef == [present |-> TRUE, ref |-> TRUE, value |-> EmptyObj]
PendingVal(v) == [present |-> TRUE, ref |-> FALSE, value |-> v]

\* the persist intervals the constructor is given (longer than the debounce)
PersistIntervals == {2}

Configs ==
    [idleTimeoutSeconds : 1..MaxIdleTimeout,
     persistIntervalSeconds : PersistIntervals,
     aggregateBy : {"folder", "file"}]

\* Storage.load(): globalState.get(key, {})
load == IF stored.present THEN stored.value ELSE EmptyObj

\* the value globalState.update(key, pendingData) leaves in the store
UpdateValue ==
    IF ~pendingData.present THEN Absent
    ELSE IF pendingData.ref THEN Present(data)
    ELSE Present(pendingData.value)

\* the keys of the result of getTimeSeriesForWorkspaceRanges, and the result
\* before any call
RangeKeys == {"7d", "30d", "1y", "all"}
NoSeries == [k \in RangeKeys |-> <<>>]

\* a host whose local time is UTC all year
UtcZone == [before |-> 0, after |-> 0, changeDay |-> 0]

\* no reset or import so far, no export so far
NoWrite ==
    [cmd |-> "none", value |-> EmptyObj, fromExport |-> FALSE, atExport |-> EmptyObj,
     counted |-> 0]
NoExport == [present |-> FALSE, json |-> <<>>, store |-> EmptyObj]

\* the state of a promise of save(): its timer was cleared / its timer has
\* run and the write is in flight (a timer id otherwise)
Superseded == -2
Writing == -3

\* the fields of a freshly constructed TimeService, Storage and StatusBar at
\* instant t (running = false, data = {}, lastActivity = lastTick = Date.now(),
\* item.text = 'TimeZap: initializing', ...)
Constructed(t) ==
    /\ now = t
    /\ timeouts = {}
    /\ running = FALSE
    /\ idle = FALSE
    /\ lastActivity = t
    /\ lastTick = t
    /\ activeFile = <<>>
    /\ activeWorkspace = ""
    /\ data = EmptyObj
    /\ tickTimer = NoTimer
    /\ persistTimer = NoTimer
    /\ disposables = 0
    /\ loadDone = FALSE
    /\ pendingData = NoPending
    /\ saveTimer = NoTimer
    /\ inflight = 0
    /\ series = NoSeries
    /\ seriesArg = ""
    /\ op = "init"
    /\ emitted = <<>>
    /\ steps = 0
    /\ cmds = 0
    /\ dirtySince = NoTimer
    /\ stopData = Absent
    /\ intervals = 0
    /\ promises = {}
    /\ statusText = FixedText("TimeZap: initializing")
    /\ deactivated = FALSE
    /\ lastWrite = NoWrite
    /\ exported = NoExport
    /\ countedSec = 0
    /\ eligibleMs = 0
    /\ startedAt = NoTimer
    /\ stoppedAt = NoTimer
    /\ countedAtStart = 0
    /\ idleTicked = FALSE

Init ==
    /\ Constructed(Epoch0)
    /\ editor \in {NoEditor, FileA}
    /\ stored \in {Absent, Present(PriorData)}
    /\ config \in Configs
    /\ tz = UtcZone

----------------------------------------------------------------------------
\* Timers of the host event loop

\* how late the event loop may run a due timer
LateMs == MaxLate * HalfTick

\* the due times of every live timer
LiveDues ==
    {t.due : t \in timeouts} \cup ({tickTimer, persistTimer} \ {NoTimer})

\* a timer due at d is run once it is due, and never before a timer due earlier
MayRun(d) == d <= now /\ \A x \in LiveDues : d <= x

\* a fresh timer handle
NewTimerId(live) ==
    CHOOSE n \in 0..Cardinality(live) : n \notin {t.id : t \in live}

----------------------------------------------------------------------------
\* Storage

\* Storage.save(data): remember the data, clear the remembered timer, schedule
\* a write 1 s from now and remember its timer
save(arg) ==
    LET kept == {t \in timeouts : t.id # saveTimer}
        id   == NewTimerId(kept)
    IN  /\ pendingData' = arg
        /\ timeouts' = kept \cup {[id |-> id, due |-> now + DebounceMs]}
        /\ saveTimer' = id

\* the promise that call of save() returns to its caller: only the callback of
\* the new timer resolves it, and the promise of a timer that save() cleared
\* is left without anything that could resolve it
awaitSave(by) ==
    LET kept == {t \in timeouts : t.id # saveTimer}
        id   == NewTimerId(kept)
    IN  promises' =
          {IF p.at >= 0 /\ p.at = saveTimer THEN [p EXCEPT !.at = Superseded] ELSE p :
             p \in promises}
            \cup {[by |-> by, at |-> id]}

\* the status bar after a step: every 'update' event calls the listener, which
\* starts a refresh; the refresh completes before the next timer or command
refreshOnUpdate(otherwise) ==
    statusText' =
        IF emitted' # <<>> /\ ~deactivated
        THEN refresh(running', load', data', workspaceKeyOf(activeWorkspace'), now')
        ELSE otherwise

\* the timer callback of Storage.save, up to its await:
\* globalState.update(key, this.pendingData)
SaveTimerFire ==
    /\ loadDone
    /\ \E t \in timeouts :
         /\ MayRun(t.due)
         /\ timeouts' = timeouts \ {t}
         /\ promises' = {IF p.at = t.id THEN [p EXCEPT !.at = Writing] ELSE p :
                           p \in promises}
    /\ stored' = UpdateValue
    /\ inflight' = inflight + 1
    /\ dirtySince' = IF UpdateValue = Present(data) THEN NoTimer ELSE dirtySince
    /\ op' = "saveTimerFire"
    /\ emitted' = <<>>
    /\ UNCHANGED <<now, editor, envVars, tickVars, activeVars, runVars, loadDone,
                   pendingData, saveTimer, steps, cmds, stopData, statusText,
                   deactivated, writeVars, countedSec, eligibleMs, sessionVars, periodVars>>

\* the rest of the timer callback, after the await: forget timer and data,
\* resolve()
SaveWriteDone ==
    /\ inflight > 0
    /\ inflight' = inflight - 1
    /\ saveTimer' = NoTimer
    /\ pendingData' = NoPending
    /\ LET writing == {p \in promises : p.at = Writing}
       IN  IF writing = {} THEN UNCHANGED promises
           ELSE \E p \in writing : promises' = promises \ {p}
    /\ op' = "saveWriteDone"
    /\ emitted' = <<>>
    /\ UNCHANGED <<hostVars, envVars, tickVars, activeVars, runVars, loadDone,
                   steps, cmds, dirtySince, stopData, statusText, deactivated,
                   writeVars, countedSec, eligibleMs, sessionVars, periodVars>>

----------------------------------------------------------------------------
\* TimeService

\* a mutant of the load callback: it keeps the {} the constructor left
LoadCompleteKeepsMemory ==
    /\ op = "activate"
    /\ ~loadDone
    /\ loadDone' = TRUE
    /\ op' = "loadComplete"
    /\ emitted' = <<"loaded">>
    /\ UNCHANGED <<hostVars, envVars, tickVars, activeVars, runVars, storageVars,
                   steps, cmds, dirtySince, stopData, promises, deactivated,
                   writeVars, countedSec, eligibleMs, sessionVars, periodVars>>
    /\ refreshOnUpdate(statusText)

\* the constructor's storage.load().then(d => { this.data = d || {} }),
\* delivered once activate() has returned and before any timer or command;
\* the object pendingData may alias is no longer this.data afterwards
LoadComplete ==
    /\ op = "activate"
    /\ ~loadDone
    /\ loadDone' = TRUE
    /\ data' = load
    /\ pendingData' = IF pendingData.present /\ pendingData.ref
                      THEN PendingVal(data) ELSE pendingData
    /\ op' = "loadComplete"
    /\ emitted' = <<"loaded">>
    /\ UNCHANGED <<hostVars, envVars, idle, lastActivity, lastTick, activeVars, runVars,
                   saveTimer, inflight, steps, cmds, dirtySince, stopData, promises,
                   deactivated, writeVars, countedSec, eligibleMs, sessionVars, periodVars>>
    /\ refreshOnUpdate(statusText)

\* a mutant of start(): without the test of this.running
startBodyUnguarded ==
    /\ running' = TRUE
    /\ idle' = FALSE
    /\ lastActivity' = now
    /\ lastTick' = now
    /\ disposables' = disposables + 4
    /\ intervals' = intervals + 2
    /\ tickTimer' = now + TickMs
    /\ persistTimer' = now + config.persistIntervalSeconds * 1000
    /\ emitted' = <<"running">>
    /\ stopData' = Absent
    /\ startedAt' = now
    /\ countedAtStart' = countedSec
    /\ idleTicked' = FALSE

\* a mutant of start(): lastTick is left where the last session put it
startBodyKeepsLastTick ==
    IF running
    THEN /\ emitted' = <<>>
         /\ UNCHANGED <<runVars, idle, lastActivity, lastTick, stopData, startedAt,
                        periodVars>>
    ELSE /\ running' = TRUE
         /\ idle' = FALSE
         /\ lastActivity' = now
         /\ lastTick' = lastTick
         /\ disposables' = disposables + 4
         /\ intervals' = intervals + 2
         /\ tickTimer' = now + TickMs
         /\ persistTimer' = now + config.persistIntervalSeconds * 1000
         /\ emitted' = <<"running">>
         /\ stopData' = Absent
         /\ startedAt' = now
         /\ countedAtStart' = countedSec
         /\ idleTicked' = FALSE

\* start(): no-op when running; otherwise both timers and the four listeners
startBody ==
    IF running
    THEN /\ emitted' = <<>>
         /\ UNCHANGED <<runVars, idle, lastActivity, lastTick, stopData, startedAt,
                        periodVars>>
    ELSE /\ running' = TRUE
         /\ idle' = FALSE
         /\ lastActivity' = now
         /\ lastTick' = now
         /\ disposables' = disposables + 4
         /\ intervals' = intervals + 2
         /\ tickTimer' = now + TickMs
         /\ persistTimer' = now + config.persistIntervalSeconds * 1000
         /\ emitted' = <<"running">>
         /\ stopData' = Absent
         /\ startedAt' = now
         /\ countedAtStart' = countedSec
         /\ idleTicked' = FALSE

\* activate(): runs in the same turn as the constructors, so before the load
\* is delivered; calls start() when the host's timezap.autoStart is set.  The
\* refresh the StatusBar constructor started, and the one start() caused,
\* complete after statusBar.update(...)
activate ==
    /\ op = "init"
    /\ op' = "activate"
    /\ \E autoStart \in BOOLEAN :
          IF autoStart
          THEN startBody
          ELSE /\ emitted' = <<>>
               /\ UNCHANGED <<runVars, idle, lastActivity, lastTick, stopData, startedAt,
                        periodVars>>
    /\ UNCHANGED <<hostVars, envVars, data, activeVars, loadDone, storageVars,
                   steps, cmds, dirtySince, promises, deactivated, writeVars,
                   countedSec, eligibleMs, stoppedAt>>
    /\ statusText' = refresh(running', load, data, workspaceKeyOf(activeWorkspace), now)

\* the timezap.startTracking command: start(), statusBar.update(...)
start ==
    /\ loadDone
    /\ ~deactivated
    /\ cmds < MaxCommands
    /\ cmds' = cmds + 1
    /\ op' = "start"
    /\ startBody
    /\ UNCHANGED <<hostVars, envVars, data, activeVars, loadDone, storageVars,
                   steps, dirtySince, promises, deactivated, writeVars,
                   countedSec, eligibleMs, stoppedAt>>
    /\ refreshOnUpdate(FixedText("TimeZap: tracking"))

\* the number of interval timers stop() clears
ClearedIntervals ==
    (IF tickTimer # NoTimer THEN 1 ELSE 0) + (IF persistTimer # NoTimer THEN 1 ELSE 0)

\* stop(): clear both timers, detach the listeners, persist() the final state
stopBody ==
    IF ~running
    THEN /\ emitted' = <<>>
         /\ UNCHANGED <<runVars, storageVars, timeouts, dirtySince, stopData,
                        promises, stoppedAt>>
    ELSE /\ running' = FALSE
         /\ disposables' = 0
         /\ intervals' = intervals - ClearedIntervals
         /\ tickTimer' = NoTimer
         /\ persistTimer' = NoTimer
         /\ save(PendingRef)
         /\ awaitSave("persist")
         /\ emitted' = <<"running">>
         /\ dirtySince' = NoTimer
         /\ stopData' = Present(data)
         /\ stoppedAt' = now
         /\ UNCHANGED inflight

\* the timezap.stopTracking command: stop(), statusBar.update(...)
stop ==
    /\ loadDone
    /\ ~deactivated
    /\ cmds < MaxCommands
    /\ cmds' = cmds + 1
    /\ op' = "stop"
    /\ stopBody
    /\ UNCHANGED <<now, editor, stored, envVars, tickVars, activeVars, loadDone, steps,
                   deactivated, writeVars, countedSec, eligibleMs, startedAt, periodVars>>
    /\ refreshOnUpdate(FixedText("TimeZap: stopped"))

\* deactivate(): timeService.dispose() (stop(), removeAllListeners()), then
\* statusBar.dispose(); nothing is done about Storage
deactivate ==
    /\ loadDone
    /\ ~deactivated
    /\ cmds < MaxCommands
    /\ cmds' = cmds + 1
    /\ op' = "deactivate"
    /\ stopBody
    /\ deactivated' = TRUE
    /\ statusText' = FixedText("")
    /\ UNCHANGED <<now, editor, stored, envVars, tickVars, activeVars, loadDone, steps,
                   writeVars, countedSec, eligibleMs, startedAt, periodVars>>

\* the persist interval: persist() -> storage.save(this.data)
persist ==
    /\ loadDone
    /\ persistTimer # NoTimer
    /\ MayRun(persistTimer)
    /\ persistTimer' = now + config.persistIntervalSeconds * 1000
    /\ save(PendingRef)
    /\ awaitSave("persist")
    /\ op' = "persist"
    /\ emitted' = <<>>
    /\ UNCHANGED <<now, editor, stored, envVars, tickVars, activeVars, running, tickTimer,
                   disposables, intervals, loadDone, inflight, steps, cmds, dirtySince,
                   stopData, statusText, deactivated, writeVars, countedSec,
                   eligibleMs, sessionVars, periodVars>>

\* the events markActivity() emits
MarkActivityEmits == IF idle THEN <<"idle">> ELSE <<>>

\* markActivity()
markActivity ==
    /\ lastActivity' = now
    /\ IF idle
       THEN idle' = FALSE /\ lastTick' = now
       ELSE UNCHANGED <<idle, lastTick>>

\* onDidChangeActiveTextEditor: the host shows editor e (or none); the listener
\* runs only while attached
ChangeActiveEditor(e) ==
    /\ loadDone
    /\ ~deactivated
    /\ cmds < MaxCommands
    /\ e # editor
    /\ cmds' = cmds + 1
    /\ op' = "changeActiveEditor"
    /\ editor' = e
    /\ IF disposables = 0
       THEN /\ emitted' = <<>>
            /\ UNCHANGED <<activeVars, idle, lastActivity, lastTick>>
       ELSE IF e # NoEditor
       THEN \* onActivityForEditor(e)
            /\ activeFile' = e
            /\ activeWorkspace' =
                 (IF getWorkspaceFolder(e) # "" THEN getWorkspaceFolder(e) ELSE Untitled)
            /\ markActivity
            /\ emitted' = MarkActivityEmits \o <<"activeFile">>
       ELSE /\ activeFile' = <<>>
            /\ activeWorkspace' = ""
            /\ emitted' = <<"activeFile">>
            /\ UNCHANGED <<idle, lastActivity, lastTick>>
    /\ UNCHANGED <<now, stored, timeouts, envVars, data, runVars, loadDone, storageVars,
                   steps, dirtySince, stopData, promises, deactivated, writeVars,
                   countedSec, eligibleMs, sessionVars, periodVars>>
    /\ refreshOnUpdate(statusText)

\* onDidChangeTextDocument / onDidChangeTextEditorSelection /
\* onDidChangeWindowState while the listeners are attached
Activity ==
    /\ loadDone
    /\ ~deactivated
    /\ cmds < MaxCommands
    /\ disposables > 0
    /\ cmds' = cmds + 1
    /\ op' = "activity"
    /\ markActivity
    /\ emitted' = MarkActivityEmits
    /\ UNCHANGED <<hostVars, envVars, data, activeVars, runVars, loadDone, storageVars,
                   steps, dirtySince, stopData, promises, deactivated, writeVars,
                   countedSec, eligibleMs, sessionVars, periodVars>>
    /\ refreshOnUpdate(statusText)

\* a mutant of the idle test: idle only after more than the timeout
IdleDetectedStrict(t, activity, timeoutSeconds) ==
    (t - activity) > timeoutSeconds * 1000

\* (now - this.lastActivity) >= this.config.idleTimeoutSeconds * 1000
IdleDetected(t, activity, timeoutSeconds) ==
    (t - activity) >= timeoutSeconds * 1000

\* this.activeWorkspace || 'untitled', this.activeFile || 'untitled'
workspaceKey == workspaceKeyOf(activeWorkspace)
fileKey == IF activeFile = <<>> THEN UntitledPath ELSE activeFile

\* a mutant of the idle branch: it books the elapsed seconds all the same
onTickIdleAccumulates ==
    /\ idle' = TRUE
    /\ lastTick' = now
    /\ emitted' = IF ~idle THEN <<"idle">> ELSE <<>>
    /\ data' = IF DeltaSec(now, lastTick) > 0
               THEN Accumulate(data, workspaceKey, fileKey, dateKeyFor(now),
                               DeltaSec(now, lastTick), config.aggregateBy)
               ELSE data
    /\ idleTicked' = TRUE
    /\ UNCHANGED <<lastActivity, dirtySince, countedSec>>

\* onTick, idle branch: set the flag, move lastTick, accumulate nothing
onTickIdle ==
    /\ idle' = TRUE
    /\ lastTick' = now
    /\ emitted' = IF ~idle THEN <<"idle">> ELSE <<>>
    /\ idleTicked' = TRUE
    /\ UNCHANGED <<data, lastActivity, dirtySince, countedSec>>

\* onTick, accumulating branch
onTickAccumulate ==
    IF DeltaSec(now, lastTick) <= 0
    THEN /\ emitted' = <<>>
         /\ UNCHANGED <<tickVars, dirtySince, countedSec, idleTicked>>
    ELSE /\ lastTick' = now
         /\ data' = Accumulate(data, workspaceKey, fileKey, dateKeyFor(now),
                               DeltaSec(now, lastTick), config.aggregateBy)
         /\ emitted' = <<"tick">>
         /\ dirtySince' = IF dirtySince = NoTimer THEN now ELSE dirtySince
         /\ countedSec' = countedSec + DeltaSec(now, lastTick)
         /\ UNCHANGED <<idle, lastActivity, idleTicked>>

\* onTick(), run by the 1 s interval
onTick ==
    /\ loadDone
    /\ tickTimer # NoTimer
    /\ MayRun(tickTimer)
    /\ tickTimer' = now + TickMs
    /\ op' = "tick"
    /\ IF ~running
       THEN /\ emitted' = <<>>
            /\ UNCHANGED <<tickVars, dirtySince, countedSec, idleTicked>>
       ELSE IF IdleDetected(now, lastActivity, config.idleTimeoutSeconds)
       THEN onTickIdle
       ELSE onTickAccumulate
    /\ UNCHANGED <<hostVars, envVars, activeVars, running, persistTimer, disposables,
                   intervals, loadDone, storageVars, steps, cmds, stopData, promises,
                   deactivated, writeVars, eligibleMs, sessionVars, countedAtStart>>
    /\ refreshOnUpdate(statusText)

----------------------------------------------------------------------------
\* Commands that write through Storage

\* timezap.resetData: storage.save({}) when the warning is confirmed, nothing
\* otherwise
resetData ==
    /\ loadDone
    /\ ~deactivated
    /\ cmds < MaxCommands
    /\ cmds' = cmds + 1
    /\ emitted' = <<>>
    /\ \E confirmed \in BOOLEAN :
         IF confirmed
         THEN /\ op' = "resetData"
              /\ save(PendingVal(EmptyObj))
              /\ awaitSave("resetData")
              /\ stopData' = Absent
              /\ lastWrite' = [cmd |-> "reset", value |-> EmptyObj, fromExport |-> FALSE,
                               atExport |-> EmptyObj, counted |-> countedSec]
         ELSE /\ op' = "resetDismissed"
              /\ UNCHANGED <<pendingData, timeouts, saveTimer, promises, stopData, lastWrite>>
    /\ UNCHANGED <<now, editor, stored, envVars, tickVars, activeVars, runVars, loadDone,
                   inflight, steps, dirtySince, statusText, deactivated, exported,
                   countedSec, eligibleMs, sessionVars, periodVars>>

\* the JSON texts the user can pick in the open dialog: a file that holds
\* ImportedData, and the file the last export wrote
ImportFiles ==
    {stringify(ImportedData)} \cup (IF exported.present THEN {exported.json} ELSE {})

\* timezap.importData with a valid file: storage.importFromJson(json)
importData ==
    /\ loadDone
    /\ ~deactivated
    /\ cmds < MaxCommands
    /\ cmds' = cmds + 1
    /\ op' = "importData"
    /\ \E json \in ImportFiles :
         /\ save(PendingVal(parse(json)))
         /\ lastWrite' = [cmd |-> "import", value |-> parse(json),
                          fromExport |-> (exported.present /\ json = exported.json),
                          atExport |-> exported.store, counted |-> countedSec]
    /\ awaitSave("importData")
    /\ emitted' = <<>>
    /\ stopData' = Absent
    /\ UNCHANGED <<now, editor, stored, envVars, tickVars, activeVars, runVars, loadDone,
                   inflight, steps, dirtySince, statusText, deactivated, exported,
                   countedSec, eligibleMs, sessionVars, periodVars>>

\* timezap.exportData: storage.exportToJson(), written to the file chosen
exportData ==
    /\ loadDone
    /\ ~deactivated
    /\ cmds < MaxCommands
    /\ cmds' = cmds + 1
    /\ op' = "exportData"
    /\ exported' = [present |-> TRUE, json |-> stringify(load), store |-> load]
    /\ emitted' = <<>>
    /\ UNCHANGED <<hostVars, envVars, tickVars, activeVars, runVars, loadDone,
                   storageVars, steps, dirtySince, stopData, promises, statusText,
                   deactivated, lastWrite, countedSec, eligibleMs, sessionVars, periodVars>>

----------------------------------------------------------------------------
\* The clock

\* the half second from now on lies within the idle timeout after the last
\* activity event (start() included) of a running service
WithinTimeout ==
    running /\ now < lastActivity + config.idleTimeoutSeconds * 1000

\* half a second passes; a write in flight completes first, and (LateMs aside)
\* every due timer runs first
AdvanceWithin(maxSteps) ==
    /\ loadDone
    /\ steps < maxSteps
    /\ inflight = 0
    /\ \A d \in LiveDues : now + HalfTick <= d + LateMs
    /\ now' = now + HalfTick
    /\ steps' = steps + 1
    /\ eligibleMs' = eligibleMs + (IF WithinTimeout THEN HalfTick ELSE 0)
    /\ op' = "advance"
    /\ emitted' = <<>>
    /\ UNCHANGED <<editor, stored, timeouts, envVars, tickVars, activeVars, runVars,
                   loadDone, storageVars, cmds, dirtySince, stopData, promises,
                   statusText, deactivated, writeVars, countedSec, sessionVars, periodVars>>

Advance == AdvanceWithin(MaxSteps)

\* the same, on an event loop that runs every timer the instant it is due
AdvancePunctual ==
    /\ \A d \in LiveDues : now + HalfTick <= d
    /\ AdvanceWithin(MaxStepsPunctual)

Next ==
    \/ activate
    \/ LoadComplete
    \/ start
    \/ stop
    \/ deactivate
    \/ onTick
    \/ persist
    \/ SaveTimerFire
    \/ SaveWriteDone
    \/ \E e \in Editors : ChangeActiveEditor(e)
    \/ Activity
    \/ resetData
    \/ importData
    \/ exportData
    \/ Advance

Spec == Init /\ [][Next]_vars

\* the program on an event loop that is never late
NextPunctual ==
    \/ activate
    \/ LoadComplete
    \/ start
    \/ stop
    \/ deactivate
    \/ onTick
    \/ persist
    \/ SaveTimerFire
    \/ SaveWriteDone
    \/ \E e \in Editors : ChangeActiveEditor(e)
    \/ Activity
    \/ resetData
    \/ importData
    \/ exportData
    \/ AdvancePunctual

SpecPunctual == Init /\ [][NextPunctual]_vars

----------------------------------------------------------------------------
\* Claims about the tick

\* every key a total can sit under before or after a step
StepWorkspaces == WorkspaceKeysOf(data) \cup WorkspaceKeysOf(data') \cup {workspaceKey, Untitled, W1}
StepDays == DayKeysOf(data) \cup DayKeysOf(data') \cup {dateKeyFor(now)}
StepFiles == FileKeysOf(data) \cup FileKeysOf(data') \cup Files \cup {UntitledPath}
StepFolders == FolderKeysOf(data) \cup FolderKeysOf(data') \cup {"src", "lib", ".", ".."}

\* the milliseconds since the last activity event
SinceActivity == now - lastActivity

\* C1: a tick at which (now - lastActivity) >= idleTimeoutSeconds*1000 adds
\* nothing to any workspace, day, file or folder total; it only sets the idle
\* flag and moves lastTick to now.
C1_IdleTickAddsNothing ==
    [][(op' = "tick" /\ running /\ SinceActivity >= config.idleTimeoutSeconds * 1000)
         => /\ \A w \in StepWorkspaces, day \in StepDays :
                 /\ DayTotal(data', w, day) = DayTotal(data, w, day)
                 /\ \A f \in StepFiles : FileTotal(data', w, day, f) = FileTotal(data, w, day, f)
                 /\ \A k \in StepFolders : FolderTotal(data', w, day, k) = FolderTotal(data, w, day, k)
            /\ data' = data
            /\ idle'
            /\ lastTick' = now
            /\ UNCHANGED <<lastActivity, activeFile, activeWorkspace, running, stored,
                           pendingData, saveTimer, timeouts, persistTimer, disposables>>]_vars

\* an idle tick has happened in a session that had already accumulated time
C1_Witness ==
    /\ op = "tick"
    /\ running
    /\ idle
    /\ lastTick = now
    /\ SinceActivity >= config.idleTimeoutSeconds * 1000
    /\ \E w \in WorkspaceKeysOf(data) : GrandTotal(data, w) > GrandTotal(load, w)

\* C2 as written: a tick marks the session idle exactly when MORE than
\* idleTimeoutSeconds have elapsed since the last activity; at exactly
\* idleTimeoutSeconds or fewer it does not mark idle and still accumulates.
C2_IdleOnlyAfterMoreThanTimeout ==
    [][(op' = "tick" /\ running)
         => /\ idle' <=> (SinceActivity > config.idleTimeoutSeconds * 1000)
            /\ (SinceActivity <= config.idleTimeoutSeconds * 1000 /\ DeltaSec(now, lastTick) > 0)
                 => data' # data]_vars

\* C2 amended: a tick marks the session idle exactly when idleTimeoutSeconds
\* or more have elapsed since the last activity (>=); when strictly fewer have
\* elapsed it leaves the session not idle and accumulates the whole seconds
\* since lastTick.
C2_IdleFromTimeoutOn ==
    [][(op' = "tick" /\ running)
         => /\ idle' <=> (SinceActivity >= config.idleTimeoutSeconds * 1000)
            /\ (SinceActivity < config.idleTimeoutSeconds * 1000 /\ DeltaSec(now, lastTick) > 0)
                 => /\ data' # data
                    /\ DayTotal(data', workspaceKey, dateKeyFor(now))
                         = DayTotal(data, workspaceKey, dateKeyFor(now)) + DeltaSec(now, lastTick)
            /\ (SinceActivity >= config.idleTimeoutSeconds * 1000) => data' = data]_vars

\* a tick has marked the session idle at exactly idleTimeoutSeconds
C2_Witness ==
    /\ op = "tick"
    /\ running
    /\ idle
    /\ emitted = <<"idle">>
    /\ SinceActivity = config.idleTimeoutSeconds * 1000

\* C3 as written: the seconds a tick accumulates go to the bucket of the
\* workspace folder of the editor the host shows as active ('untitled' only
\* when that file is in no folder or no editor is active).
C3_TimeGoesToActiveEditorsWorkspace ==
    [][(op' = "tick" /\ data' # data)
         => DayTotal(data', HostWorkspaceKey(editor), dateKeyFor(now))
              = DayTotal(data, HostWorkspaceKey(editor), dateKeyFor(now))
                  + DeltaSec(now, lastTick)]_vars

\* C4: an accumulating tick adds its deltaSec to exactly one day bucket, that
\* of the active workspace (or 'untitled') and of the UTC date of the tick
\* instant, and within it to exactly one byFile entry (aggregateBy = 'file') or
\* one byFolder entry (aggregateBy = 'folder'); every other total is unchanged.
C4_TickAddsToOneBucket ==
    [][(/\ op' = "tick"
        /\ running
        /\ SinceActivity < config.idleTimeoutSeconds * 1000
        /\ DeltaSec(now, lastTick) > 0)
         => \A w \in StepWorkspaces, day \in StepDays :
              LET here == (w = workspaceKey /\ day = CivilFromDays(now \div DayMs))
                  add(c) == IF here /\ c THEN DeltaSec(now, lastTick) ELSE 0
              IN  /\ DayTotal(data', w, day) = DayTotal(data, w, day) + add(TRUE)
                  /\ \A f \in StepFiles :
                       FileTotal(data', w, day, f) = FileTotal(data, w, day, f)
                         + add(config.aggregateBy = "file" /\ f = fileKey)
                  /\ \A k \in StepFolders :
                       FolderTotal(data', w, day, k) = FolderTotal(data, w, day, k)
                         + add(config.aggregateBy = "folder"
                               /\ k = folderKeyFor(workspaceKey, fileKey))]_vars

\* a tick has accumulated into a store that holds another workspace and
\* another day as well
C4_Witness ==
    /\ op = "tick"
    /\ emitted = <<"tick">>
    /\ lastTick = now
    /\ Cardinality(WorkspaceKeysOf(data)) >= 2
    /\ \E w \in WorkspaceKeysOf(data) : Cardinality(DOMAIN DatesOf(data, w)) >= 2

----------------------------------------------------------------------------
\* Claims about persistence

\* the timers a step ran (removed without a save() clearing them)
FiredIds == {t.id : t \in timeouts \ timeouts'}

\* C8 as written: a burst of saves less than 1 s apart causes exactly one
\* globalState.update, made by the timer of the last call and carrying the
\* data of the last call: whenever a save timer runs, it is the timer Storage
\* remembers, pendingData is the last call's data (not undefined), and no
\* other scheduled write is left behind.
C8_OneWritePerBurst ==
    [][op' = "saveTimerFire"
         => /\ pendingData.present
            /\ stored'.present
            /\ FiredIds = {saveTimer}
            /\ timeouts' = {}]_vars

\* C9 as written: while tracking runs and timers are punctual, a total added
\* by a tick is in the host store at most persistIntervalSeconds + 1 seconds
\* later.
C9_WrittenWithinPersistIntervalPlusDebounce ==
    (running /\ dirtySince # NoTimer)
        => now - dirtySince <= (config.persistIntervalSeconds + 1) * 1000

\* C10 as written, for the case that nothing else was saved after the stop:
\* once the save that stop() started has settled, the store holds the totals
\* this.data had at the stop.
C10_StopWritesFinalState ==
    (stopData.present /\ ~running /\ timeouts = {} /\ inflight = 0)
        => stored = Present(stopData.value)

----------------------------------------------------------------------------
\* Date objects of the host, in a time zone with at most one offset change

HourMs == DayMs \div 24

\* a Date: UTC day number and millisecond of that day
DateOfInstant(ts) == [day |-> ts \div DayMs, ms |-> ts % DayMs]
Normalize(day, ms) == [day |-> day + (ms \div DayMs), ms |-> ms % DayMs]
Earlier(a, b) == a.day < b.day \/ (a.day = b.day /\ a.ms < b.ms)

\* the offset changes from tz.before to tz.after at 02:00 local time of local
\* day tz.changeDay
ChangeWall == [day |-> tz.changeDay, ms |-> 2 * HourMs]
ChangeUtc == Normalize(tz.changeDay, 2 * HourMs - tz.before)
OffsetAtUtc(d) == IF Earlier(d, ChangeUtc) THEN tz.before ELSE tz.after
OffsetAtWall(l) == IF Earlier(l, ChangeWall) THEN tz.before ELSE tz.after

\* the local date and time of day that getDate() etc. read
LocalFields(d) == Normalize(d.day, d.ms + OffsetAtUtc(d))

\* d.setDate(d.getDate() - i): the same local time of day, i local days back
setDateBack(d, i) ==
    LET l    == LocalFields(d)
        wall == [day |-> l.day - i, ms |-> l.ms]
    IN  Normalize(wall.day, wall.ms - OffsetAtWall(wall))

\* dateKeyFor(d.getTime())
dateKeyOf(d) == CivilFromDays(d.day)

----------------------------------------------------------------------------
\* getTimeSeriesForWorkspaceRanges

\* a mutant of makeRange: the loop stops at i > 0
makeRangeShort(days) ==
    [j \in 1..(days - 1) |->
        [date |-> dateKeyOf(setDateBack(DateOfInstant(now), days - j)), totalSeconds |-> 0]]

\* makeRange(days): for (i = days - 1; i >= 0; i--) push {date, 0}
makeRange(days) ==
    [j \in 1..days |->
        [date |-> dateKeyOf(setDateBack(DateOfInstant(now), days - j)), totalSeconds |-> 0]]

\* buildContiguous(days): the same dates, with the stored total where found
buildContiguous(days, dates) ==
    [j \in 1..days |->
        LET key == dateKeyOf(setDateBack(DateOfInstant(now), days - j))
        IN  [date |-> key,
             totalSeconds |-> IF key \in DOMAIN dates THEN TotalOf(dates[key]) ELSE 0]]

\* keys.sort((a, b) => a.localeCompare(b))
RECURSIVE SortedByDate(_)
SortedByDate(keys) ==
    IF keys = {} THEN <<>>
    ELSE LET m == CHOOSE k \in keys : \A o \in keys \ {k} : DateLess(k, o)
         IN  <<m>> \o SortedByDate(keys \ {m})

\* a mutant of dayEntries: newest first (b.date.localeCompare(a.date))
dayEntriesNewestFirst(dates) ==
    LET ks == SortedByDate(DOMAIN dates)
        n  == Len(ks)
    IN  [i \in 1..n |-> [date |-> ks[n + 1 - i], totalSeconds |-> TotalOf(dates[ks[n + 1 - i]])]]

\* dayEntries: Object.keys(ws.dates).map(...).sort(...)
dayEntries(dates) ==
    LET ks == SortedByDate(DOMAIN dates)
    IN  [i \in 1..Len(ks) |-> [date |-> ks[i], totalSeconds |-> TotalOf(dates[ks[i]])]]

\* workspaceUri || this.activeWorkspace || 'untitled'
wsKeyFor(workspaceUri) == IF workspaceUri # "" THEN workspaceUri ELSE workspaceKey

\* ws && ws.dates of the loaded data: whether there is a record with dates
HasDates(d, w) ==
    /\ w \in DOMAIN WorkspaceFoldersOf(d)
    /\ "dates" \in DOMAIN WorkspaceFoldersOf(d)[w]

getTimeSeriesForWorkspaceRanges(workspaceUri) ==
    LET wsKey == wsKeyFor(workspaceUri)
    IN  IF ~HasDates(load, wsKey)
        THEN ("7d" :> makeRange(Days7)) @@ ("30d" :> makeRange(Days30))
               @@ ("1y" :> makeRange(Days1y)) @@ ("all" :> <<>>)
        ELSE LET dates == WorkspaceFoldersOf(load)[wsKey].dates
             IN  ("7d" :> buildContiguous(Days7, dates))
                   @@ ("30d" :> buildContiguous(Days30, dates))
                   @@ ("1y" :> buildContiguous(Days1y, dates))
                   @@ ("all" :> dayEntries(dates))

\* a caller (timezap.showDashboard, the test) asks for the series
getSeries(workspaceUri) ==
    /\ series' = getTimeSeriesForWorkspaceRanges(workspaceUri)
    /\ seriesArg' = workspaceUri
    /\ op' = "series"
    /\ emitted' = <<>>
    /\ UNCHANGED <<hostVars, tz, config, tickVars, activeVars, runVars, loadDone,
                   storageVars, steps, cmds, dirtySince, stopData, promises,
                   statusText, deactivated, writeVars, countedSec, eligibleMs,
                   sessionVars, periodVars>>

\* the instants the series are asked at: 00:30, 12:00 and 23:30 UTC
SeriesNows ==
    {SeriesDay * DayMs + h : h \in {HourMs \div 2, 12 * HourMs, 24 * HourMs - HourMs \div 2}}

\* UTC; New York around the start of daylight saving time; Berlin around its
\* end; India (no change)
TimeZones ==
    {UtcZone,
     [before |-> -5 * HourMs, after |-> -4 * HourMs, changeDay |-> SeriesDay - 3],
     [before |-> 2 * HourMs, after |-> HourMs, changeDay |-> SeriesDay - 3],
     [before |-> 5 * HourMs + HourMs \div 2, after |-> 5 * HourMs + HourMs \div 2, changeDay |-> 0]}

\* how many days before today a stored bucket may lie
StoredOffsets == {0, 1, 3, 6, 7, 29, 30, 364, 365}

\* the bucket stored k days before today; one of them has no totalSeconds
StoredBucket(k) ==
    IF k = 3 THEN [byFile |-> <<>>, byFolder |-> <<>>]
    ELSE [totalSeconds |-> 600 + k, byFile |-> <<>>, byFolder |-> ("src" :> 600 + k)]

StoredKey(t, k) == CivilFromDays((t \div DayMs) - k)

StoreOf(t, S) ==
    [workspaceFolders |->
        (W1 :> [meta |-> [path |-> W1],
                dates |-> [d \in {StoredKey(t, k) : k \in S} |->
                             StoredBucket(CHOOSE k \in S : StoredKey(t, k) = d)]])]

\* what globalState may hold: nothing, {}, a record without dates, or up to
\* MaxStoredDays day buckets of W1
SeriesStores(t) ==
    {Absent, Present(EmptyObj),
     Present([workspaceFolders |-> (W1 :> [meta |-> [path |-> W1]])])}
    \cup {Present(StoreOf(t, S)) :
            S \in {X \in SUBSET StoredOffsets : Cardinality(X) <= MaxStoredDays}}

\* new TimeService(context, storage): the default configuration
DefaultConfig ==
    [idleTimeoutSeconds |-> 300, persistIntervalSeconds |-> 30, aggregateBy |-> "folder"]

SeriesInit ==
    /\ \E t \in SeriesNows : Constructed(t)
    /\ editor = NoEditor
    /\ config = DefaultConfig
    /\ tz \in TimeZones
    /\ stored \in SeriesStores(now)

SeriesNext == \E w \in {"", W1} : getSeries(w)

SpecSeries == SeriesInit /\ [][SeriesNext]_vars

----------------------------------------------------------------------------
\* Claims about the time series

\* the stored day buckets of the workspace the series were asked for
AskedDates ==
    IF HasDates(load, wsKeyFor(seriesArg))
    THEN WorkspaceFoldersOf(load)[wsKeyFor(seriesArg)].dates ELSE <<>>

RECURSIVE SumSeq(_)
SumSeq(q) == IF q = <<>> THEN 0 ELSE Head(q).totalSeconds + SumSeq(Tail(q))

RECURSIVE SumBuckets(_, _)
SumBuckets(dates, keys) ==
    IF keys = {} THEN 0
    ELSE LET k == CHOOSE x \in keys : TRUE
         IN  TotalOf(dates[k]) + SumBuckets(dates, keys \ {k})

\* C5: the '7d' array has 7 entries, the '30d' array 30 and the '1y' array
\* 365, whatever is stored, also when the workspace has no record at all.
C5_RangeLengths ==
    op = "series"
        => /\ Len(series["7d"]) = 7
           /\ Len(series["30d"]) = 30
           /\ Len(series["1y"]) = 365

\* the series were built for a workspace that has no stored record
C5_Witness ==
    /\ op = "series"
    /\ ~HasDates(load, wsKeyFor(seriesArg))
    /\ Len(series["1y"]) = 365
    /\ series["all"] = <<>>

\* C6: 'all' holds exactly one entry per stored day bucket of the workspace,
\* in ascending date order, each with the bucket's totalSeconds (0 when
\* missing), so its sum is the sum of the stored day totals; it is empty when
\* the workspace has no record.
C6_AllIsTheStoredBuckets ==
    op = "series"
        => LET all == series["all"]
           IN  /\ Len(all) = Cardinality(DOMAIN AskedDates)
               /\ {all[i].date : i \in 1..Len(all)} = DOMAIN AskedDates
               /\ \A i, j \in 1..Len(all) : i < j => DateLess(all[i].date, all[j].date)
               /\ \A i \in 1..Len(all) :
                    all[i].totalSeconds
                      = (IF "totalSeconds" \in DOMAIN AskedDates[all[i].date]
                         THEN AskedDates[all[i].date].totalSeconds ELSE 0)
               /\ SumSeq(all) = SumBuckets(AskedDates, DOMAIN AskedDates)

\* 'all' was built from two stored buckets, one of them without totalSeconds
C6_Witness ==
    /\ op = "series"
    /\ Len(series["all"]) >= 2
    /\ \E i \in 1..Len(series["all"]) :
         /\ "totalSeconds" \notin DOMAIN AskedDates[series["all"][i].date]
         /\ series["all"][i].totalSeconds = 0
    /\ SumSeq(series["all"]) > 0

\* C7 as written: entry i (from 0) of an N-day range is dated exactly N-1-i
\* calendar days before today, so the dates are consecutive days ending today;
\* a stored day in the range appears with its total, any other day with 0.
C7_RangesAreContiguous ==
    op = "series"
        => \A n \in {7, 30, 365} :
             LET r == series[IF n = 7 THEN "7d" ELSE IF n = 30 THEN "30d" ELSE "1y"]
             IN  \A j \in 1..Len(r) :
                   LET day == CivilFromDays((now \div DayMs) - (n - j))
                   IN  /\ r[j].date = day
                       /\ r[j].totalSeconds
                            = (IF day \in DOMAIN AskedDates THEN TotalOf(AskedDates[day]) ELSE 0)

----------------------------------------------------------------------------
\* Claims about what the store ends up holding

\* no write is waiting on the debounce timer or in flight
Settled == timeouts = {} /\ inflight = 0

\* the seconds ticks have added since the last reset or import
TickedSinceWrite == countedSec - lastWrite.counted

\* the sum of every day total of every workspace in d
RECURSIVE SumWorkspaces(_, _)
SumWorkspaces(d, ws) ==
    IF ws = {} THEN 0
    ELSE LET w == CHOOSE x \in ws : TRUE
         IN  GrandTotal(d, w) + SumWorkspaces(d, ws \ {w})
TotalAll(d) == SumWorkspaces(d, WorkspaceKeysOf(d))

\* C11 as written: when deactivate() has returned, the host store holds the
\* latest in-memory totals and no write is still waiting on the debounce timer.
C11_DeactivateFlushes ==
    op = "deactivate" => (Settled /\ load = data)

\* C12 as written: after a confirmed resetData, once saves have settled, the
\* store holds no total recorded before the reset (at most the seconds ticked
\* since), also when tracking was running at the reset; a reset that was not
\* confirmed leaves the store and the pending write alone.
C12_ResetErasesHistory ==
    [][/\ (lastWrite'.cmd = "reset" /\ Settled')
            => TotalAll(load') <= TickedSinceWrite'
       /\ op' = "resetDismissed"
            => UNCHANGED <<stored, pendingData, timeouts, saveTimer, data>>]_vars

\* C13 as written: exportToJson leaves the stored data alone and writes a text
\* that parses back to it, and after importing that text, once saves have
\* settled and with no second ticked since, the stored data is what it was at
\* the export.
C13_ExportImportRoundTrip ==
    [][/\ op' = "exportData"
            => (stored' = stored /\ parse(exported'.json) = load)
       /\ (/\ lastWrite'.cmd = "import"
           /\ lastWrite'.fromExport
           /\ Settled'
           /\ TickedSinceWrite' = 0)
            => load' = lastWrite'.atExport]_vars

\* C15 as written: after importData, once saves have settled and with no
\* second ticked since, the stored data is the parsed imported data (it has
\* not been replaced by what the TimeService held in memory).
C15_ImportSurvivesPersist ==
    (lastWrite.cmd = "import" /\ Settled /\ TickedSinceWrite = 0)
        => load = lastWrite.value

----------------------------------------------------------------------------
\* Claims about the status bar

\* totalSeconds of today's bucket of the TimeService's active workspace
\* ('untitled' when it has none) in d; 0 when there is no such bucket
TodayTotal(d) == DayTotal(d, workspaceKey, dateKeyFor(now))

\* C14: every 'update' event emitted before the StatusBar is disposed causes
\* a refresh, and when it has completed the text is 'TimeZap: ' followed by
\* the formatted totalSeconds of today's stored bucket of the active workspace
\* (0s when there is none), with ' (live)' exactly when the service was
\* running at that refresh.
C14_StatusBarShowsStoredTotal ==
    [][(emitted' # <<>> /\ ~deactivated')
         => /\ statusText'.fixed = "TimeZap: "
            /\ statusText'.human = formatSecondsHuman(TodayTotal(load)')
            /\ TodayTotal(load)' < 60
                 => statusText'.human = <<[n |-> TodayTotal(load)', unit |-> "s"]>>
            /\ statusText'.live <=> running']_vars

\* a refresh after a tick has shown the stored 5 s as live while this.data
\* already holds more for the same bucket
C14_Witness ==
    /\ op = "tick"
    /\ emitted = <<"tick">>
    /\ ~deactivated
    /\ running
    /\ TodayTotal(load) = 5
    /\ TodayTotal(data) > 5
    /\ statusText = TotalText(<<[n |-> 5, unit |-> "s"]>>, TRUE)

----------------------------------------------------------------------------
\* Claims about the life cycle of the TimeService

\* every workspace and day under which the store or this.data holds a total
LoadWorkspaces == WorkspaceKeysOf(load) \cup WorkspaceKeysOf(data) \cup WorkspaceKeysOf(data')
LoadDays == DayKeysOf(load) \cup DayKeysOf(data) \cup DayKeysOf(data')

\* C16: the constructor's load completes before any tick or persist of the
\* session: when it completes nothing has been ticked or handed to Storage,
\* the in-memory total of every day is from then on at least the stored total
\* plus what this session had in memory, and nothing is written to the store
\* before the load has completed.
C16_LoadPrecedesTicksAndPersists ==
    [][/\ op' = "loadComplete"
            => /\ countedSec = 0
               /\ ~pendingData.present /\ timeouts = {} /\ promises = {}
               /\ stored' = stored
               /\ \A w \in LoadWorkspaces, day \in LoadDays :
                     DayTotal(data', w, day) >= DayTotal(load, w, day) + DayTotal(data, w, day)
       /\ ~loadDone
            => (stored' = stored /\ countedSec' = 0 /\ timeouts' = {})]_vars

\* the load has completed on a service that activate() had already started,
\* and this.data holds the stored history
C16_Witness ==
    /\ op = "loadComplete"
    /\ running
    /\ tickTimer # NoTimer
    /\ stored = Present(PriorData)
    /\ data = PriorData

\* C18: running is true exactly when the tick timer exists, the persist timer
\* exists and the four listeners are attached; there is never more than one
\* tick timer, one persist timer or one set of listeners, whatever start(),
\* stop() and dispose() were called; start() on a running service changes
\* nothing and emits nothing.
C18_RunningIffTimersAndListeners ==
    [][/\ running' <=> (tickTimer' # NoTimer /\ persistTimer' # NoTimer /\ disposables' = 4)
       /\ running' => intervals' = 2
       /\ ~running' => (/\ tickTimer' = NoTimer /\ persistTimer' = NoTimer
                         /\ disposables' = 0 /\ intervals' = 0)
       /\ (op' = "start" /\ running)
            => (emitted' = <<>> /\ UNCHANGED <<runVars, tickVars, activeVars, storageVars,
                                                timeouts, stored>>)]_vars

\* the start command has been given to a service that was started earlier
\* and is still running
C18_Witness ==
    /\ op = "start"
    /\ running
    /\ startedAt # NoTimer
    /\ startedAt < now
    /\ intervals = 2
    /\ disposables = 4

\* C19: time that elapses between stop() and the next start() is never added
\* to a total: an effective start() sets lastActivity and lastTick to now,
\* totals change only by a tick of a running service, and a tick adds no
\* more than the time since the last effective start().
C19_StoppedTimeNotCounted ==
    [][/\ (~running /\ running') => (lastActivity' = now /\ lastTick' = now)
       /\ (~running /\ op' # "loadComplete") => data' = data
       /\ (op' # "loadComplete" /\ TotalAll(data') # TotalAll(data))
            => /\ op' = "tick"
               /\ running
               /\ startedAt # NoTimer
               /\ 1000 * (TotalAll(data') - TotalAll(data)) <= now - startedAt]_vars

\* a tick has accumulated in a session that was started some time after a
\* stop()
C19_Witness ==
    /\ op = "tick"
    /\ emitted = <<"tick">>
    /\ stoppedAt # NoTimer
    /\ startedAt > stoppedAt
    /\ lastTick = now

\* C20 as written: every second added to a total lies within
\* idleTimeoutSeconds after some activity event (start() counted as one): the
\* seconds the ticks have added never exceed the time the service has spent
\* running within the idle timeout after its last activity.
C20_CountedWithinIdleTimeout ==
    countedSec * 1000 <= eligibleMs

----------------------------------------------------------------------------
\* Claims about the promises of Storage.save

\* the program with an event loop that keeps running: a due timer runs, a
\* write in flight completes, the load is delivered, and time passes
SpecLive ==
    /\ Init
    /\ [][Next]_vars
    /\ WF_vars(activate)
    /\ WF_vars(LoadComplete)
    /\ WF_vars(onTick)
    /\ WF_vars(persist)
    /\ WF_vars(SaveTimerFire)
    /\ WF_vars(SaveWriteDone)
    /\ WF_vars(Advance)

\* who calls Storage.save
SaveCallers == {"persist", "resetData", "importData"}

\* a promise of save() that caller awaits has not resolved
Awaiting(by) == \E p \in promises : p.by = by

\* the clock of the model has stopped while a timer of that caller is still
\* to run
OutOfTime(by) == steps = MaxSteps /\ \E p \in promises : p.by = by /\ p.at >= 0

\* C17 as written: every promise Storage.save returns eventually resolves
\* (as far as the clock of the model runs), also when a later save inside the
\* debounce window superseded its write; so a confirmed resetData reaches its
\* 'Data reset.' message.
C17_EverySaveResolves ==
    \A by \in SaveCallers : Awaiting(by) ~> (~Awaiting(by) \/ OutOfTime(by))

----------------------------------------------------------------------------
\* Claims about the arithmetic of a tick

\* seconds the ticks have added since the last effective start()
PeriodSec == countedSec - countedAtStart

\* wall-clock time since the last effective start()
PeriodMs == now - startedAt

\* C21 as written: over a running period with no idle tick the seconds the
\* ticks added never exceed the wall-clock time since start(), and right
\* after a tick they fall short of it by less than one second in total; a
\* tick with less than 1000 ms since lastTick changes neither lastTick nor
\* any total.
C21_TicksCountElapsedTime ==
    [][/\ (running' /\ ~idleTicked') => 1000 * PeriodSec' <= PeriodMs'
       /\ (op' = "tick" /\ running' /\ ~idleTicked')
            => PeriodMs' - 1000 * PeriodSec' < 1000
       /\ (op' = "tick" /\ running /\ ~idleTicked' /\ now - lastTick < 1000)
            => (lastTick' = lastTick /\ data' = data)]_vars

====
